---- MODULE Spec2Model ----
(***************************************************************************)
(* Model of nix_review/nix.py: the Attr entity with its lazily cached      *)
(* store check (was_build), the dedup pass over an evaluation response     *)
(* (_nix_eval_filter), nix_eval with its temporary input file, and         *)
(* nix_build.                                                              *)
(*                                                                         *)
(* Python's None is the string "None"; Optional[bool] is one of "None",    *)
(* "True", "False".  A dict is a sequence of key/value pairs in insertion  *)
(* order.  A Python list that is shared between objects is a cell of the   *)
(* variable `lists`, and the objects hold the cell's reference.            *)
(***************************************************************************)
EXTENDS Integers, Sequences, FiniteSets, TLC

\* ------------------------------------------------------------- bounds
\* largest number of entries in an evaluation response given to nix_eval
MaxEntries == 3
\* largest number of names passed to one nix_build call
MaxAttrs == 2
\* largest number of was_build calls on one Attr
MaxAsks == 2
\* largest number of names earlier calls of the process have left in the
\* default aliases list when a further call starts
MaxPrior == 1

\* ------------------------------------------------------------- inputs
None == "None"

\* the denylist of _nix_eval_filter
blacklist == {"tests.nixos-functions.nixos-test", "tests.nixos-functions.nixosTest-test"}

\* attribute names a caller may ask for: two of one length, a longer one,
\* and one of the denylist
Names == {"a", "b", "cc", "tests.nixos-functions.nixos-test"}

\* store paths the evaluation may report
Paths == {"/p1", "/p2"}

\* the value of one key of the evaluation response
Props == [exists : {TRUE}, broken : BOOLEAN, path : Paths \cup {None}, drvPath : {"/d.drv"}]

\* exit codes of an external tool
ExitCodes == {0, 1}

RECURSIVE SeqsUpTo(_, _)
SeqsUpTo(S, n) ==
    IF n = 0 THEN {<<>>}
    ELSE LET shorter == SeqsUpTo(S, n - 1)
         IN  shorter \cup {Append(s, x) : s \in {t \in shorter : Len(t) = n - 1}, x \in S}

Range(s) == {s[i] : i \in DOMAIN s}

Injective(s) == \A i, j \in DOMAIN s : s[i] = s[j] => i = j

\* the JSON objects the evaluation tool may print: every key once, in any order
Responses(n) ==
    {r \in SeqsUpTo([name : Names, props : Props], n) :
        Injective([i \in DOMAIN r |-> r[i].name])}

\* ------------------------------------------------------------- Attr
\* the one list object made when `def __init__(..., aliases=[])` is evaluated
DefaultAliases == "Attr.__init__.aliases"

\* Attr.__init__ called without `aliases`, as _nix_eval_filter calls it: the
\* new object's aliases field is the default list object itself, not a copy
Attr(name, exists, broken, blacklisted, path, drv_path) ==
    [name |-> name, exists |-> exists, broken |-> broken,
     blacklisted |-> blacklisted, path |-> path, path_verified |-> None,
     drv_path |-> drv_path, aliases |-> DefaultAliases]

\* ------------------------------------------------------------- _nix_eval_filter
\* position of key k in a dict, 0 when absent
IndexOf(d, k) ==
    IF \E i \in DOMAIN d : d[i].key = k
    THEN CHOOSE i \in DOMAIN d : d[i].key = k
    ELSE 0

\* as Replaces, with >= for >
ReplacesOnTie(other, attr) == Len(other.name) >= Len(attr.name)

\* `len(other.name) > len(attr.name)`: the new attr replaces the canonical one
Replaces(other, attr) == Len(other.name) > Len(attr.name)

\* as ReplaceAppend, without the append
ReplaceAppendNothing(other, attr) == <<>>

\* what the winner's aliases list gains when attr replaces other (line 82)
ReplaceAppend(other, attr) == <<other.name>>

\* one iteration of the loop of _nix_eval_filter.  st is the loop's state:
\* attr_by_path (a dict), broken (a list) and heap (the list objects).
FilterStep(st, name, props) ==
    LET attr == Attr(name, props.exists, props.broken, name \in blacklist,
                     props.path, props.drvPath)
        i == IndexOf(st.attr_by_path, attr.path)
    IN  IF attr.path # None
        THEN IF i = 0
             THEN [st EXCEPT !.attr_by_path = Append(@, [key |-> attr.path, val |-> attr])]
             ELSE LET other == st.attr_by_path[i].val
                  IN  IF Replaces(other, attr)
                      THEN [st EXCEPT !.attr_by_path[i].val = attr,
                                      !.heap[attr.aliases] = @ \o ReplaceAppend(other, attr)]
                      ELSE [st EXCEPT !.heap[other.aliases] = Append(@, attr.name)]
        ELSE [st EXCEPT !.broken = Append(@, attr)]

RECURSIVE FilterLoop(_, _, _)
FilterLoop(st, json, k) ==
    IF k > Len(json) THEN st
    ELSE FilterLoop(FilterStep(st, json[k].name, json[k].props), json, k + 1)

\* _nix_eval_filter(json) run on the heap h: the returned list and the heap after
nix_eval_filter(json, h) ==
    LET st == FilterLoop([attr_by_path |-> <<>>, broken |-> <<>>, heap |-> h], json, 1)
        values == [i \in DOMAIN st.attr_by_path |-> st.attr_by_path[i].val]
    IN  [ret |-> values \o st.broken, heap |-> st.heap]

\* ------------------------------------------------------------- state
VARIABLES
    lists,      \* the heap of list objects: reference -> contents
    op,         \* the operation that ran last ("pending": a nix_eval call is about to run)
    arg,        \* nix_eval / nix_build: the attribute names passed in
    json,       \* the response the evaluation tool printed (<<>> when none)
    ecode,      \* exit code of the evaluation tool
    bcode,      \* exit code of the build tool
    attrs,      \* nix_build: its local `attrs` as nix_eval returned it
    ret,        \* the list the last nix_eval / nix_build returned; the Attr
                \* objects the caller holds
    raised,     \* the exception that left the last call, or None
    trace,      \* the external effects of the last call, in order
    checks,     \* per held Attr: runs of `nix-store --verify-path` on it
    returned,   \* per held Attr: what its last was_build returned
    set_by,     \* per held Attr: what the was_build that set _path_verified returned
    asked       \* per held Attr: was_build calls made on it

vars == <<lists, op, arg, json, ecode, bcode, attrs, ret, raised, trace, checks, returned, set_by, asked>>

Event(ev, names) == [ev |-> ev, names |-> names]

Count(t, ev) == Cardinality({i \in DOMAIN t : t[i].ev = ev})

Keys(j) == {j[i].name : i \in DOMAIN j}

\* the caller holds the list l and has verified nothing on it yet
Hold(l) ==
    /\ ret' = l
    /\ checks' = [i \in DOMAIN l |-> 0]
    /\ returned' = [i \in DOMAIN l |-> None]
    /\ set_by' = [i \in DOMAIN l |-> None]
    /\ asked' = [i \in DOMAIN l |-> 0]

Held(l) ==
    /\ ret = l
    /\ checks = [i \in DOMAIN l |-> 0]
    /\ returned = [i \in DOMAIN l |-> None]
    /\ set_by = [i \in DOMAIN l |-> None]
    /\ asked = [i \in DOMAIN l |-> 0]

\* a process that has just started: the default list is as the `def` made it
Init ==
    /\ lists = [r \in {DefaultAliases} |-> <<>>]
    /\ op = "start"
    /\ arg = {}
    /\ json = <<>>
    /\ ecode = 0
    /\ bcode = 0
    /\ attrs = <<>>
    /\ Held(<<>>)
    /\ raised = None
    /\ trace = <<>>

\* ------------------------------------------------------------- nix_eval
\* as Delete, with `delete` never set to False
DeleteAlways(code) == TRUE

\* whether nix_eval unlinks its temporary file in the finally block:
\* `delete` stays True unless the tool exited non-zero
Delete(code) == code = 0

\* nix_eval(attrs) on heap h, the tool exiting with `code` and printing j
nix_eval(code, j, h) ==
    LET run == <<Event("NamedTemporaryFile", <<>>), Event("nix eval", <<>>)>>
        fin == IF Delete(code) THEN <<Event("unlink", <<>>)>> ELSE <<>>
        out == nix_eval_filter(j, h)
    IN  IF code # 0
        THEN [raised |-> "CalledProcessError", ret |-> <<>>, heap |-> h,
              trace |-> run \o <<Event("warn", <<>>)>> \o fin]
        ELSE [raised |-> None, ret |-> out.ret, heap |-> out.heap,
              trace |-> run \o fin]

\* A process about to call nix_eval.  Earlier calls may have left names in
\* the default list: every sequence of names can be left there, one name per
\* call (each name loses to a shorter or equally long earlier one).
InitEval ==
    /\ lists \in [{DefaultAliases} -> SeqsUpTo(Names, MaxPrior)]
    /\ op = "pending"
    /\ arg = {}
    /\ json = <<>>
    /\ ecode = 0
    /\ bcode = 0
    /\ attrs = <<>>
    /\ Held(<<>>)
    /\ raised = None
    /\ trace = <<>>

\* the responses nix_eval is run on
EvalResponses == Responses(MaxEntries)

\* nix_eval(names): the tool exits with ec and, when that is 0, has printed j
NixEval ==
    /\ op = "pending"
    /\ \E ec \in ExitCodes, j \in EvalResponses,
          names \in {S \in SUBSET Names : Cardinality(S) <= MaxEntries} :
         /\ IF ec = 0 THEN names = Keys(j) ELSE j = <<>>
         /\ LET e == nix_eval(ec, j, lists)
            IN  /\ lists' = e.heap
                /\ op' = "nix_eval"
                /\ arg' = names
                /\ json' = j
                /\ ecode' = ec
                /\ Hold(e.ret)
                /\ raised' = e.raised
                /\ trace' = e.trace
    /\ UNCHANGED <<bcode, attrs>>

\* ------------------------------------------------------------- nix_build
\* as Buildable, without the test of broken
BuildableIfNotBlacklisted(attr) == ~attr.blacklisted

\* as Buildable, without the test of blacklisted
BuildableIfNotBroken(attr) == ~attr.broken

\* `not (attr.broken or attr.blacklisted)`
Buildable(attr) == ~(attr.broken \/ attr.blacklisted)

\* the names nix_build collects in `filtered`
RECURSIVE Filtered(_)
Filtered(l) ==
    IF l = <<>> THEN <<>>
    ELSE (IF Buildable(Head(l)) THEN <<Head(l).name>> ELSE <<>>) \o Filtered(Tail(l))

\* as AfterBuild, without the `except`
AfterBuildUncaught(l, code) ==
    IF code # 0 THEN [raised |-> "CalledProcessError", ret |-> <<>>]
    ELSE [raised |-> None, ret |-> l]

\* as NothingChanged, the test never true
NothingChangedNever(names) == FALSE

\* `if not attr_names`
NothingChanged(names) == names = {}

\* the end of nix_build after `sh(command)` exited with `code`: the
\* CalledProcessError of a non-zero exit is caught and passed over
AfterBuild(l, code) == [raised |-> None, ret |-> l]

\* nix_build(names, args, cache_directory) on heap h: the evaluation exits
\* with ec and prints j, the build (when it runs) exits with bc
nix_build(names, ec, j, bc, h) ==
    LET e == nix_eval(ec, j, h)
        filtered == Filtered(e.ret)
        b == AfterBuild(e.ret, bc)
    IN  IF NothingChanged(names)
        THEN [raised |-> None, ret |-> <<>>, attrs |-> <<>>, heap |-> h,
              trace |-> <<Event("info", <<>>)>>]
        ELSE IF e.raised # None
        THEN [raised |-> e.raised, ret |-> <<>>, attrs |-> <<>>, heap |-> e.heap,
              trace |-> e.trace]
        ELSE IF Len(filtered) = 0
        THEN [raised |-> None, ret |-> e.ret, attrs |-> e.ret, heap |-> e.heap,
              trace |-> e.trace]
        ELSE [raised |-> b.raised, ret |-> b.ret, attrs |-> e.ret, heap |-> e.heap,
              trace |-> e.trace \o <<Event("write build.nix", filtered),
                                      Event("nix build", <<>>)>>]

\* the responses to the names of one nix_build call
BuildResponses == Responses(MaxAttrs)

\* the caller is between reviews: it holds no Attr of an earlier call
Idle == op \in {"start", "discard"}

\* nix_build(names, args, cache_directory).  The process is followed while
\* the default list holds at most MaxPrior names when a call starts.  An exit
\* code of a tool that did not run is 0.
NixBuild ==
    /\ Idle
    /\ Len(lists[DefaultAliases]) <= MaxPrior
    /\ \E ec \in ExitCodes, bc \in ExitCodes, j \in BuildResponses,
          names \in {S \in SUBSET Names : Cardinality(S) <= MaxAttrs} :
         /\ IF ec = 0 /\ names # {} THEN names = Keys(j) ELSE j = <<>>
         /\ LET b == nix_build(names, ec, j, bc, lists)
            IN  /\ Count(b.trace, "nix build") = 0 => bc = 0
                /\ Count(b.trace, "nix eval") = 0 => ec = 0
                /\ lists' = b.heap
                /\ op' = "nix_build"
                /\ arg' = names
                /\ json' = j
                /\ ecode' = ec
                /\ bcode' = bc
                /\ attrs' = b.attrs
                /\ Hold(b.ret)
                /\ raised' = b.raised
                /\ trace' = b.trace

\* The review that called nix_build is over: its Attr objects are dropped.
\* Only the default list of Attr.__init__ lives on in the process.
Discard ==
    /\ op = "nix_build"
    /\ op' = "discard"
    /\ arg' = {}
    /\ json' = <<>>
    /\ ecode' = 0
    /\ bcode' = 0
    /\ attrs' = <<>>
    /\ Hold(<<>>)
    /\ raised' = None
    /\ trace' = <<>>
    /\ UNCHANGED lists

Next == NixBuild \/ Discard

Spec == Init /\ [][Next]_vars

\* ------------------------------------------------------------- was_build
\* as Cached, the cache never read
CachedNever(attr) == FALSE

\* `if self._path_verified is not None: return self._path_verified`
Cached(attr) == attr.path_verified # None

\* Attr.was_build on `attr`, `nix-store --verify-path` exiting with `code`
\* when it runs: the object after, the returned boolean, and whether it ran
was_build(attr, code) ==
    IF attr.path = None
    THEN [attr |-> attr, result |-> "False", ran |-> FALSE]
    ELSE IF Cached(attr)
    THEN [attr |-> attr, result |-> attr.path_verified, ran |-> FALSE]
    ELSE LET v == IF code = 0 THEN "True" ELSE "False"
         IN  [attr |-> [attr EXCEPT !.path_verified = v], result |-> v, ran |-> TRUE]

\* attr.was_build() on the i-th Attr the caller holds
WasBuild ==
    \E i \in DOMAIN ret, code \in ExitCodes :
        LET w == was_build(ret[i], code)
        IN  /\ asked[i] < MaxAsks
            /\ asked' = [asked EXCEPT ![i] = @ + 1]
            /\ ret' = [ret EXCEPT ![i] = w.attr]
            /\ checks' = [checks EXCEPT ![i] = @ + (IF w.ran THEN 1 ELSE 0)]
            /\ returned' = [returned EXCEPT ![i] = w.result]
            /\ set_by' = [set_by EXCEPT ![i] =
                              IF ret[i].path_verified = None /\ w.attr.path_verified # None
                              THEN w.result ELSE @]
            /\ op' = "was_build"
            /\ UNCHANGED <<lists, arg, json, ecode, bcode, attrs, raised, trace>>

\* a process that calls nix_build once and then asks its Attrs was_build
NextVerify == NixBuild \/ WasBuild

SpecVerify == Init /\ [][NextVerify]_vars

\* a nix_eval call
SpecEval == InitEval /\ [][NixEval]_vars

\* ------------------------------------------------------------- properties
\* the contents of the aliases list of Attr a
Aliases(a) == lists[a.aliases]

\* the positions of the response whose path is p
Sharing(p) == {k \in DOMAIN json : json[k].props.path = p}

\* nix_eval has returned a list for the response json
Evaluated == op = "nix_eval" /\ raised = None

\* C1: after the dedup pass every non-null output path of the response is
\* carried by exactly one Attr of the returned list, and the name of every
\* other response entry with that path is in that Attr's aliases list.
C1_OneCanonicalWithAliases ==
    Evaluated =>
        \A p \in Paths :
            Sharing(p) # {} =>
                /\ Cardinality({i \in DOMAIN ret : ret[i].path = p}) = 1
                /\ \A i \in DOMAIN ret : ret[i].path = p =>
                       \A k \in Sharing(p) :
                           json[k].name # ret[i].name =>
                               json[k].name \in Range(Aliases(ret[i]))

\* three names share one path and each is shorter than the one before, so the
\* canonical Attr is replaced twice; the process's default list was empty
C1_Witness ==
    /\ Evaluated
    /\ Len(json) = 3
    /\ \A k \in DOMAIN json : json[k].props.path = "/p1"
    /\ Len(json[1].name) > Len(json[2].name)
    /\ Len(json[2].name) > Len(json[3].name)
    /\ Len(ret) = 1
    /\ ret[1].name = json[3].name
    /\ Aliases(ret[1]) = <<json[1].name, json[2].name>>

\* C10: the Attr that survives for a path has the fewest characters in its
\* name among the response entries with that path, and among those of that
\* length it is the first of the response.
C10_ShortestFirstSeen ==
    Evaluated =>
        \A i \in DOMAIN ret : ret[i].path # None =>
            \E m \in Sharing(ret[i].path) :
                /\ json[m].name = ret[i].name
                /\ \A k \in Sharing(ret[i].path) :
                       /\ Len(json[m].name) <= Len(json[k].name)
                       /\ Len(json[m].name) = Len(json[k].name) => m <= k

\* two names of one length share a path with a longer name between them:
\* the first stays canonical
C10_Witness ==
    /\ Evaluated
    /\ Len(json) = 3
    /\ \A k \in DOMAIN json : json[k].props.path = "/p2"
    /\ Len(json[1].name) = Len(json[3].name)
    /\ Len(json[2].name) > Len(json[1].name)
    /\ Len(ret) = 1
    /\ ret[1].name = json[1].name

\* nix_build has just returned or raised
Built == op = "nix_build"

\* the names of the response entries other than k that have k's non-null path
Others(k) ==
    {json[m].name : m \in {n \in Sharing(json[k].props.path) :
                              n # k /\ json[k].props.path # None}}

\* the position in the response of the entry named n
Entry(n) == CHOOSE k \in DOMAIN json : json[k].name = n

\* C2: the aliases list of every Attr an evaluation produced holds exactly
\* the other names of that evaluation's response that have the Attr's output
\* path: none when the path is null or unique.
C2_AliasesAreOwnBatch ==
    (Built /\ raised = None) =>
        \A i \in DOMAIN ret :
            /\ Range(Aliases(ret[i])) = Others(Entry(ret[i].name))
            /\ Len(Aliases(ret[i])) = Cardinality(Others(Entry(ret[i].name)))

\* C3: every response entry with a null output path is its own Attr of the
\* returned list, its name is in no returned Attr's aliases list, the
\* null-path Attrs keep the response's order and come after every Attr that
\* has a path.
C3_NullPathStandalone ==
    (Built /\ raised = None) =>
        /\ \A k \in Sharing(None) :
               /\ Cardinality({i \in DOMAIN ret : ret[i].name = json[k].name}) = 1
               /\ \A i \in DOMAIN ret :
                      /\ ret[i].name = json[k].name => ret[i].path = None
                      /\ json[k].name \notin Range(Aliases(ret[i]))
        /\ \A i, j \in DOMAIN ret :
               /\ (ret[i].path # None /\ ret[j].path = None) => i < j
               /\ (ret[i].path = None /\ ret[j].path = None /\ i < j)
                      => Entry(ret[i].name) < Entry(ret[j].name)

\* the external effects of the last call that are calls of a tool or changes
\* of the file system
Effects ==
    {i \in DOMAIN trace :
        trace[i].ev \in {"NamedTemporaryFile", "nix eval", "unlink",
                         "write build.nix", "nix build"}}

\* C5: nix_build with no names runs no tool, makes no temporary file, writes
\* no build.nix and returns the empty list.
C5_EmptyIsNoOp ==
    (Built /\ arg = {}) => (Effects = {} /\ ret = <<>> /\ raised = None)

\* a process that has made an earlier, real call calls nix_build with no names
C5_Witness ==
    /\ Built
    /\ arg = {}
    /\ lists[DefaultAliases] # <<>>

\* the response entry k is broken or its name is on the denylist
Unbuildable(k) == json[k].props.broken \/ json[k].name \in blacklist

\* every path and every null-path name of the response is in the returned list
FullList ==
    \A k \in DOMAIN json :
        \E i \in DOMAIN ret :
            /\ ret[i].path = json[k].props.path
            /\ json[k].props.path = None => ret[i].name = json[k].name

\* C6: nix_build with names whose evaluated Attrs are all broken or
\* blacklisted evaluates once, never runs the build, writes no build.nix and
\* returns the whole evaluated list.
C6_NothingBuildable ==
    (Built /\ arg # {} /\ ecode = 0 /\ \A i \in DOMAIN ret : Unbuildable(Entry(ret[i].name))) =>
        /\ Count(trace, "nix eval") = 1
        /\ Count(trace, "nix build") = 0
        /\ Count(trace, "write build.nix") = 0
        /\ raised = None
        /\ ret = attrs
        /\ FullList

\* two Attrs are evaluated, one broken only and one blacklisted only
C6_Witness ==
    /\ Built
    /\ Len(ret) = 2
    /\ ret[1].broken /\ ~ret[1].blacklisted
    /\ ret[2].blacklisted /\ ~ret[2].broken
    /\ Count(trace, "nix build") = 0

\* the names of the Attrs of l whose response entry is neither broken nor on
\* the denylist, in the order of l
RECURSIVE WantedNames(_)
WantedNames(l) ==
    IF l = <<>> THEN <<>>
    ELSE (IF Unbuildable(Entry(Head(l).name)) THEN <<>> ELSE <<Head(l).name>>)
         \o WantedNames(Tail(l))

\* C7: an evaluated Attr whose name is on the denylist is blacklisted whatever
\* its broken value, and the names written to build.nix are exactly the names
\* of the evaluated Attrs that are neither broken nor blacklisted, in the
\* list's order.
C7_BuildOnlyBuildable ==
    (Built /\ raised = None) =>
        /\ \A i \in DOMAIN ret :
               /\ ret[i].blacklisted = (ret[i].name \in blacklist)
               /\ ret[i].broken = json[Entry(ret[i].name)].props.broken
        /\ \A t \in DOMAIN trace :
               trace[t].ev = "write build.nix" =>
                   /\ trace[t].names = WantedNames(ret)
                   /\ \A n \in Range(trace[t].names) : ~Unbuildable(Entry(n))

\* a build.nix is written for a list that also holds a blacklisted Attr that
\* is not broken
C7_Witness ==
    /\ Built
    /\ Count(trace, "write build.nix") = 1
    /\ \E i \in DOMAIN ret : ret[i].blacklisted /\ ~ret[i].broken

\* C8: when the build tool exits non-zero nix_build raises nothing and
\* returns the whole evaluated list, as it does when the tool exits zero; the
\* tool runs at most once in a call.
C8_BuildFailureIgnored ==
    (Built /\ Count(trace, "nix build") > 0) =>
        /\ Count(trace, "nix build") = 1
        /\ raised = None
        /\ ret = attrs
        /\ FullList

\* the build exits non-zero for a list that holds a broken Attr too
C8_Witness ==
    /\ Built
    /\ bcode # 0
    /\ Count(trace, "nix build") = 1
    /\ \E i \in DOMAIN ret : ret[i].broken

\* the temporary file of the last call is still there
Retained == Count(trace, "NamedTemporaryFile") - Count(trace, "unlink") = 1

\* C9: a call that reaches nix_eval makes one temporary file and runs the
\* evaluation tool once; when the tool exits non-zero the file is kept, the
\* failure reaches the caller and no build runs, and when it exits zero the
\* file is gone.
C9_TempFileKeptOnFailure ==
    (Built /\ arg # {}) =>
        /\ Count(trace, "NamedTemporaryFile") = 1
        /\ Count(trace, "nix eval") = 1
        /\ ecode # 0 => /\ Retained
                        /\ raised = "CalledProcessError"
                        /\ Count(trace, "nix build") = 0
        /\ ecode = 0 => ~Retained /\ raised = None

\* the evaluation tool exits non-zero inside nix_build
C9_Witness ==
    /\ Built
    /\ ecode # 0
    /\ Retained

\* C4: was_build runs the store check only for an Attr that has a path and
\* whose _path_verified is still None: at most one check per Attr, none for
\* a null path (False is returned and _path_verified stays None); once set,
\* _path_verified keeps its value and every later call returns what the
\* setting call returned.
C4_VerifiedAtMostOnce ==
    \A i \in DOMAIN ret :
        /\ checks[i] <= 1
        /\ ret[i].path = None =>
               /\ checks[i] = 0
               /\ ret[i].path_verified = None
               /\ asked[i] > 0 => returned[i] = "False"
        /\ ret[i].path_verified = None => checks[i] = 0
        /\ (ret[i].path # None /\ asked[i] > 0) => ret[i].path_verified # None
        /\ ret[i].path_verified # None =>
               /\ checks[i] = 1
               /\ set_by[i] = ret[i].path_verified
               /\ returned[i] = set_by[i]

\* an Attr found invalid by its first was_build has been asked again
C4_Witness ==
    \E i \in DOMAIN ret :
        /\ asked[i] = 2
        /\ checks[i] = 1
        /\ ret[i].path_verified = "False"
        /\ returned[i] = "False"

====
